---------------------------- MODULE Spec2Model ----------------------------
(***************************************************************************)
(* A model of the context retrieval and ranking engine of momentum-ai      *)
(* (utils.py), of the ingestion route that fills the vector store          *)
(* (routes/ingest.py) and of the embedding client (ai_client.py).          *)
(*                                                                         *)
(* Numbers.  Python floats are modelled as exact fixed-point integers:     *)
(* similarity, recency_score, recency_weight and the thresholds are in     *)
(* thousandths (One = 1.0); combined_score is in millionths (One * One),   *)
(* because it is a product of two quantities in thousandths.               *)
(*                                                                         *)
(* Texts.  A text is a slice [c, from, to] of a named base content, so     *)
(* len(text) = to - from + 1 and two texts are equal exactly when they are *)
(* the same slice.  The retrieval code looks at a text only through len(), *)
(* equality and the embedding provider.  polish_context, which rewrites    *)
(* the characters of a text, is modelled on sequences of characters.       *)
(***************************************************************************)
EXTENDS Integers, Sequences, FiniteSets, TLC

VARIABLES
    store,        \* the Chroma collection: sequence of stored fragments, in insertion order
    now,          \* datetime.now(), in days; it does not move during the runs modelled
    reranker,     \* utils._reranker: "None", "False", or a loaded model [obj |-> n]
    call,         \* the last retrieve_user_context call: its arguments, what happened, its outcome
    tpc,          \* per thread: position inside _get_reranker
    tnew,         \* per thread: the CrossEncoder it has constructed and not yet assigned
    tgot,         \* per thread: the value _get_reranker returned to it
    built,        \* number of CrossEncoder objects constructed in the process
    pstage,       \* polish_context driver: "in", "once", "twice"
    px,           \* the fragment list given to polish_context
    py,           \* polish_context(px, m)
    pz,           \* polish_context(py, m)
    pm,           \* the min_similarity given to polish_context
    syl,          \* per request: a POST /ingest/syllabus in flight, its position and what it did
    fn,           \* the pure function applied last ("none" before), for the specifications of single functions
    arg,          \* the arguments it is applied to
    ret           \* the value it returned

\* the variables of the syllabus route and of the single-function specifications
aux == <<syl, fn, arg, ret>>

vars == <<store, now, reranker, call, tpc, tnew, tgot, built, pstage, px, py, pz, pm, aux>>

(***************************************************************************)
(* Program constants.                                                      *)
(***************************************************************************)
One == 1000                 \* 1.0 in thousandths
DedupThreshold == 950       \* similarity_threshold = 0.95
NeighbourScore == 750       \* similarity / combined_score 0.75 of a stitched neighbour
ChunkSize == 1000           \* chunk_size of the text splitter, and the short-document limit
ChunkOverlap == 200         \* chunk_overlap of the text splitter
OverFetch == 3              \* n_results = k * 3
RerankFactor == 2           \* top_k = k * 2
RecencyFloor == 100         \* max(0.1, ...)
HalfLifeDays == 30          \* 1 / (1 + days_old / 30)

(***************************************************************************)
(* Bounds of the model.                                                    *)
(***************************************************************************)
MaxStore == 3               \* at most this many fragments are ever stored
MaxK == 2                   \* k ranges over 0..MaxK
NThreads == 3               \* threads calling _get_reranker concurrently
MaxPolishLen == 2           \* longest fragment list given to polish_context
NRequests == 2              \* POST /ingest/syllabus requests in flight at once
MaxSummarizeLen == 7        \* max_length of summarize_long_context ranges over 0..MaxSummarizeLen
MaxFormatDocs == 2          \* longest fragment list given to format_context_for_prompt
MaxDaysOld == 300           \* oldest timestamp given to the recency score, in days before now
MaxDaysAhead == 40          \* latest timestamp given to the recency score, in days after now
MaxTasks == 2               \* longest task list given to fallback_scheduler

(***************************************************************************)
(* Generic helpers.                                                        *)
(***************************************************************************)
Min(a, b) == IF a <= b THEN a ELSE b
Max(a, b) == IF a >= b THEN a ELSE b

\* s[:n] for n >= 0
Take(s, n) == SubSeq(s, 1, Min(n, Len(s)))

\* dict.get(key, default)
Get(d, key, default) == IF key \in DOMAIN d THEN d[key] ELSE default

\* {**base, **over}
Merge(base, over) ==
    [key \in DOMAIN base \cup DOMAIN over |->
        IF key \in DOMAIN over THEN over[key] ELSE base[key]]

\* list.sort(key=..., reverse=True) on a sequence of [key, val]: Python's
\* sort is stable, so elements of equal key keep their order (each element
\* is inserted after the elements whose key is >= its own)
RECURSIVE InsertDesc(_, _)
InsertDesc(sorted, x) ==
    IF sorted = <<>> THEN <<x>>
    ELSE IF Head(sorted).key >= x.key
         THEN <<Head(sorted)>> \o InsertDesc(Tail(sorted), x)
         ELSE <<x>> \o sorted

RECURSIVE SortDescFrom(_, _)
SortDescFrom(done, rest) ==
    IF rest = <<>> THEN done
    ELSE SortDescFrom(InsertDesc(done, Head(rest)), Tail(rest))

SortDescByKey(pairs) ==
    LET sorted == SortDescFrom(<<>>, pairs)
    IN  [i \in DOMAIN sorted |-> sorted[i].val]

\* The sort without reverse=True: ascending combined_score
SortByCombinedScoreAscending(docs) ==
    SortDescByKey([i \in DOMAIN docs |-> [key |-> 0 - docs[i].combined_score, val |-> docs[i]]])

\* docs.sort(key=lambda x: x['combined_score'], reverse=True)
SortByCombinedScore(docs) ==
    SortDescByKey([i \in DOMAIN docs |-> [key |-> docs[i].combined_score, val |-> docs[i]]])

(***************************************************************************)
(* Texts, identifiers and the requests the model draws its inputs from.    *)
(***************************************************************************)
Users == {"u1", "u2"}

TextLen(text) == text.to - text.from + 1

\* f"{doc_id}_chunk_{i}": identifiers are sequences of string pieces, so the
\* formatted identifier is the concatenation of its pieces
Digits == <<"0", "1", "2", "3", "4", "5", "6", "7", "8", "9">>
ChunkId(doc_id, i) == doc_id \o <<"_chunk_", Digits[i + 1]>>

\* The documents ingest requests carry (DocItem: id, text, meta).  "D" is
\* uploaded in two versions, a 1100 and a 1900 character text; "N" and "M"
\* are short notes, "N" with a timestamp of its own in its meta (day 0).
DocPool ==
    { [id |-> <<"D">>, text |-> [c |-> "A", from |-> 1, to |-> 1100],
       meta |-> [type |-> "context"]],
      [id |-> <<"D">>, text |-> [c |-> "B", from |-> 1, to |-> 1900],
       meta |-> [type |-> "context"]],
      [id |-> <<"N">>, text |-> [c |-> "N", from |-> 1, to |-> 200],
       meta |-> [type |-> "context", timestamp |-> 0]],
      [id |-> <<"M">>, text |-> [c |-> "M", from |-> 1, to |-> 400],
       meta |-> [type |-> "chat"]] }

QueryPool == { [c |-> "Q", from |-> 1, to |-> 12] }

(***************************************************************************)
(* The embedding provider (external).  A vector is [x, y, n] with n its    *)
(* Euclidean norm; the provider is a fixed function of the text.  The      *)
(* vectors are chosen so that the cosines between them are 1, 0.993, 0.96, *)
(* 0.936, 0.8, 0.724, 0.6, ...: near-duplicates (> 0.95), fragments above  *)
(* and below the usual similarity floor 0.65 all occur, and all three      *)
(* chunks of the longer version of "D" are above the floor.                *)
(***************************************************************************)
ZeroVector == [x |-> 0, y |-> 0, n |-> 0]

ProviderEmbedding(text) ==
    CASE text.c = "Q" -> [x |-> 1, y |-> 0, n |-> 1]
      [] text.c = "N" -> [x |-> 1, y |-> 0, n |-> 1]
      [] text.c = "M" -> [x |-> 24, y |-> 7, n |-> 25]
      [] text.c = "A" /\ text.from = 1 -> [x |-> 4, y |-> 3, n |-> 5]
      [] text.c = "A" /\ text.from > 1 -> [x |-> 3, y |-> 4, n |-> 5]
      [] text.c = "B" /\ text.from = 1 -> [x |-> 24, y |-> 7, n |-> 25]
      [] text.c = "B" /\ text.from > 1 /\ text.to < 1900 -> [x |-> 4, y |-> 3, n |-> 5]
      [] text.c = "B" /\ text.from > 1 /\ text.to >= 1900 -> [x |-> 21, y |-> 20, n |-> 29]
      [] OTHER -> [x |-> 24, y |-> 7, n |-> 25]

\* cosine similarity in thousandths; defined when both norms are positive
Cosine(a, b) == (One * (a.x * b.x + a.y * b.y)) \div (a.n * b.n)

\* gemini_embedding(texts): the provider's vectors, or, when the provider
\* raises, the zero vector for every text (the exception is swallowed)
gemini_embedding(texts, providerOk) ==
    [i \in DOMAIN texts |->
        IF providerOk THEN ProviderEmbedding(texts[i]) ELSE ZeroVector]

(***************************************************************************)
(* The vector store (external: a Chroma collection).                       *)
(***************************************************************************)
StoredIds(st) == {st[i].id : i \in DOMAIN st}

\* collection.get(ids=[id]): the matching records, possibly none
CollectionGet(st, id) == SelectSeq(st, LAMBDA f : f.id = id)

\* The where clause of retrieve_user_context: {"user_id": u}, or
\* {"$and": [{"user_id": u}, {"type": {"$in": types}}]}
Matches(f, where) ==
    /\ Get(f.meta, "user_id", "") = where.user_id
    /\ where.typed => Get(f.meta, "type", "") \in where.types

\* Chroma's cosine distance in thousandths, 1 - cos; a zero vector has
\* cosine 0 with everything
Distance(a, b) == IF a.n = 0 \/ b.n = 0 THEN One ELSE One - Cosine(a, b)

\* collection.query(query_embeddings=[q], n_results=n, where=w): the n nearest
\* matching records as (text, meta, distance), by ascending distance
CollectionQuery(st, q_emb, n, where) ==
    LET hits == SelectSeq(st, LAMBDA f : Matches(f, where))
        rows == [i \in DOMAIN hits |->
                    [text |-> hits[i].text, meta |-> hits[i].meta,
                     distance |-> Distance(q_emb, hits[i].embedding)]]
    IN  Take(SortDescByKey([i \in DOMAIN rows |-> [key |-> 0 - rows[i].distance, val |-> rows[i]]]), n)

(***************************************************************************)
(* routes/ingest.py                                                        *)
(***************************************************************************)
\* text_splitter.split_text (RecursiveCharacterTextSplitter, chunk_size 1000,
\* chunk_overlap 200) on a text without separators: windows of ChunkSize
\* characters, each starting ChunkSize - ChunkOverlap after the previous one
RECURSIVE SplitFrom(_, _)
SplitFrom(text, from) ==
    IF from + ChunkSize - 1 >= text.to
    THEN << [c |-> text.c, from |-> from, to |-> text.to] >>
    ELSE << [c |-> text.c, from |-> from, to |-> from + ChunkSize - 1] >>
         \o SplitFrom(text, from + ChunkSize - ChunkOverlap)

SplitText(text) == IF TextLen(text) = 0 THEN <<>> ELSE SplitFrom(text, text.from)

\* The fragments one document of an ingest request turns into (the body of
\* the loop over req.docs), without their embeddings
DocFragments(user_id, d, today) ==
    LET base_meta == Merge([user_id |-> user_id, timestamp |-> today], d.meta)
        chunks == SplitText(d.text)
    IN  IF Len(chunks) = 1 /\ TextLen(d.text) <= ChunkSize
        THEN << [id |-> d.id, text |-> d.text, meta |-> base_meta] >>
        ELSE [i \in DOMAIN chunks |->
                [id |-> ChunkId(d.id, i - 1),
                 text |-> chunks[i],
                 meta |-> Merge(base_meta,
                                [chunk_index |-> i - 1,
                                 total_chunks |-> Len(chunks),
                                 source_doc_id |-> d.id,
                                 is_chunk |-> TRUE])]]

RECURSIVE AllFragments(_, _, _)
AllFragments(user_id, docs, today) ==
    IF docs = <<>> THEN <<>>
    ELSE DocFragments(user_id, Head(docs), today)
         \o AllFragments(user_id, Tail(docs), today)

\* collection.add(documents, embeddings, ids, metadatas) of a Chroma
\* PersistentClient collection (database.py): a batch that repeats an id is
\* rejected and leaves the collection unchanged; a record whose id the
\* collection already holds is ignored, the stored record stays as it is
CollectionAdd(st, frags) ==
    LET ids == [i \in DOMAIN frags |-> frags[i].id]
        repeated == \E i, j \in DOMAIN ids : i < j /\ ids[i] = ids[j]
    IN  IF repeated THEN st
        ELSE st \o SelectSeq(frags, LAMBDA f : f.id \notin StoredIds(st))

\* The body of ingest: the collection after the batch add, and the records
\* the add put into it
Ingested(st, user_id, docs, providerOk, today) ==
    LET frags == AllFragments(user_id, docs, today)
        embeddings == gemini_embedding([i \in DOMAIN frags |-> frags[i].text], providerOk)
        records == [i \in DOMAIN frags |->
                      [id |-> frags[i].id, text |-> frags[i].text,
                       meta |-> frags[i].meta, embedding |-> embeddings[i]]]
        added == IF frags = <<>> THEN st ELSE CollectionAdd(st, records)
    IN  [store |-> added,
         inserted |-> SubSeq(added, Len(st) + 1, Len(added))]

\* POST /ingest
ingest(user_id, docs, providerOk) ==
    LET added == Ingested(store, user_id, docs, providerOk, now).store
    IN  /\ Len(added) <= MaxStore
        /\ store' = added
        /\ UNCHANGED <<now, reranker, call, tpc, tnew, tgot, built, pstage, px, py, pz, pm, aux>>

(***************************************************************************)
(* POST /ingest/syllabus.  The route is a synchronous handler: requests    *)
(* run in the server's thread pool, so two of them can be between their    *)
(* store calls at the same time.  A request is modelled in two steps, the  *)
(* removal of the old chunks (collection.get and collection.delete) and    *)
(* the call of ingest(req) (collection.add).                               *)
(***************************************************************************)
Requests == 1..NRequests

\* The syllabus documents the requests carry: course c1 in a short and in a
\* long version under the same document id, course c2, and a document whose
\* meta has no course_id
SyllabusPool ==
    { [id |-> <<"S1">>, text |-> [c |-> "V", from |-> 1, to |-> 400],
       meta |-> [type |-> "syllabus", course_id |-> "c1"]],
      [id |-> <<"S1">>, text |-> [c |-> "W", from |-> 1, to |-> 1100],
       meta |-> [type |-> "syllabus", course_id |-> "c1"]],
      [id |-> <<"S2">>, text |-> [c |-> "X", from |-> 1, to |-> 400],
       meta |-> [type |-> "syllabus", course_id |-> "c2"]],
      [id |-> <<"S3">>, text |-> [c |-> "Y", from |-> 1, to |-> 400],
       meta |-> [type |-> "syllabus"]] }

SyllabusDocs == {<<>>} \cup {<<d>> : d \in SyllabusPool}

IdleRequest ==
    [pc |-> "idle", user_id |-> "", docs |-> <<>>, course_id |-> "",
     delete_failed |-> FALSE, inserted |-> <<>>, after |-> <<>>]

IdleRequests == [r \in Requests |-> IdleRequest]

\* where={"$and": [{"user_id": u}, {"type": "syllabus"}, {"course_id": c}]}
IsSyllabusOf(f, user_id, course_id) ==
    /\ Get(f.meta, "user_id", "") = user_id
    /\ Get(f.meta, "type", "") = "syllabus"
    /\ Get(f.meta, "course_id", "") = course_id

\* results = collection.get(where=...); collection.delete(ids=results['ids'])
DeleteSyllabus(st, user_id, course_id) ==
    SelectSeq(st, LAMBDA f : ~IsSyllabusOf(f, user_id, course_id))

\* Lines 131-159: the checks of the request, then the removal of the old
\* chunks inside try/except; storeRaises is whether collection.get or
\* collection.delete raises, which the handler prints and passes over
DeleteOldChunks(r, user_id, docs, storeRaises) ==
    /\ syl[r].pc = "idle"
    /\ LET course_id == IF docs = <<>> THEN "" ELSE Get(docs[1].meta, "course_id", "")
       IN  IF course_id = ""
           THEN /\ syl' = [syl EXCEPT ![r] = [IdleRequest EXCEPT
                                                !.pc = "fault", !.user_id = user_id,
                                                !.docs = docs]]
                /\ UNCHANGED store
           ELSE /\ syl' = [syl EXCEPT ![r] = [IdleRequest EXCEPT
                                                !.pc = "ingest", !.user_id = user_id,
                                                !.docs = docs, !.course_id = course_id,
                                                !.delete_failed = storeRaises]]
                /\ store' = IF storeRaises THEN store
                            ELSE DeleteSyllabus(store, user_id, course_id)
    /\ UNCHANGED <<now, reranker, call, tpc, tnew, tgot, built, pstage, px, py, pz, pm, fn, arg, ret>>

\* Line 162: return ingest(req); the request then answers with status ok.
\* inserted is what its collection.add put into the store, after is the
\* store as the request leaves it.
IngestNew(r) ==
    /\ syl[r].pc = "ingest"
    /\ LET ing == Ingested(store, syl[r].user_id, syl[r].docs, TRUE, now)
       IN  /\ Len(ing.store) <= MaxStore
           /\ store' = ing.store
           /\ syl' = [syl EXCEPT ![r] = [@ EXCEPT !.pc = "ok",
                                                  !.inserted = ing.inserted,
                                                  !.after = ing.store]]
    /\ UNCHANGED <<now, reranker, call, tpc, tnew, tgot, built, pstage, px, py, pz, pm, fn, arg, ret>>

\* The response has been sent; the worker thread takes the next request
Respond(r) ==
    /\ syl[r].pc \in {"ok", "fault"}
    /\ syl' = [syl EXCEPT ![r] = IdleRequest]
    /\ UNCHANGED <<store, now, reranker, call, tpc, tnew, tgot, built, pstage, px, py, pz, pm, fn, arg, ret>>

(***************************************************************************)
(* utils.py: the retrieval pipeline.  A fragment (a dict of the code) is a *)
(* record text, meta, similarity, recency_score, combined_score, and       *)
(* rerank_score with has_rerank saying whether the key is present.  The    *)
(* field stitched is not in the code: it marks the fragments the Context   *)
(* Stitcher created, and is left out when the code compares two dicts.     *)
(***************************************************************************)
Dict(doc) ==
    [text |-> doc.text, meta |-> doc.meta, similarity |-> doc.similarity,
     recency_score |-> doc.recency_score, combined_score |-> doc.combined_score,
     has_rerank |-> doc.has_rerank, rerank_score |-> doc.rerank_score]

\* doc in docs (== of dicts)
In(doc, docs) == \E i \in DOMAIN docs : Dict(docs[i]) = Dict(doc)

\* docs.index(doc)
Index(docs, doc) ==
    CHOOSE i \in DOMAIN docs :
        /\ Dict(docs[i]) = Dict(doc)
        /\ \A j \in 1..(i - 1) : Dict(docs[j]) # Dict(doc)

\* recency_score of the scan: 1.0 without a timestamp, and when computing
\* the decay raises (a division by zero, swallowed by the except)
RecencyScore(meta, today) ==
    IF "timestamp" \notin DOMAIN meta THEN One
    ELSE LET days_old == today - meta["timestamp"]
         IN  IF HalfLifeDays + days_old = 0 THEN One
             ELSE IF HalfLifeDays + days_old < 0 THEN RecencyFloor
             ELSE Max(RecencyFloor, (One * HalfLifeDays) \div (HalfLifeDays + days_old))

\* The floor compared with the distance instead of the similarity
BelowFloorOnDistance(similarity, min_similarity) == One - similarity < min_similarity

\* if similarity < min_similarity: continue
BelowFloor(similarity, min_similarity) == similarity < min_similarity

\* The scan with its budget test removed
OverflowsNever(total_length, text, max_context_length) == FALSE

\* if total_length + len(doc_text) > max_context_length: break
Overflows(total_length, text, max_context_length) ==
    total_length + TextLen(text) > max_context_length

\* The loop over the query's rows: [docs, total_length] after the scan
RECURSIVE Scan(_, _, _, _, _, _, _)
Scan(rows, docs, total_length, min_similarity, max_context_length, recency_weight, today) ==
    IF rows = <<>> THEN [docs |-> docs, total_length |-> total_length]
    ELSE
      LET row == Head(rows)
          similarity == One - row.distance
          recency_score == RecencyScore(row.meta, today)
          combined_score == (One - recency_weight) * similarity
                            + recency_weight * recency_score
      IN  IF BelowFloor(similarity, min_similarity)
          THEN Scan(Tail(rows), docs, total_length, min_similarity,
                    max_context_length, recency_weight, today)
          ELSE IF Overflows(total_length, row.text, max_context_length)
          THEN [docs |-> docs, total_length |-> total_length]
          ELSE Scan(Tail(rows),
                    Append(docs, [text |-> row.text, meta |-> row.meta,
                                  similarity |-> similarity,
                                  recency_score |-> recency_score,
                                  combined_score |-> combined_score,
                                  has_rerank |-> FALSE, rerank_score |-> 0,
                                  stitched |-> FALSE]),
                    total_length + TextLen(row.text), min_similarity,
                    max_context_length, recency_weight, today)

(***************************************************************************)
(* _deduplicate_context                                                    *)
(***************************************************************************)
\* whether docs[i] is "very similar" to one of the fragments kept so far
IsDuplicate(docs, embeddings, unique_docs, i, similarity_threshold) ==
    \E u \in DOMAIN unique_docs :
        LET emb_i == embeddings[i]
            emb_unique == embeddings[Index(docs, unique_docs[u])]
        IN  /\ emb_i.n > 0
            /\ emb_unique.n > 0
            /\ Cosine(emb_i, emb_unique) > similarity_threshold

RECURSIVE DedupFrom(_, _, _, _, _)
DedupFrom(docs, embeddings, unique_docs, i, similarity_threshold) ==
    IF i > Len(docs) THEN unique_docs
    ELSE DedupFrom(docs, embeddings,
                   IF IsDuplicate(docs, embeddings, unique_docs, i, similarity_threshold)
                   THEN unique_docs ELSE Append(unique_docs, docs[i]),
                   i + 1, similarity_threshold)

deduplicate_context(docs, similarity_threshold, providerOk) ==
    IF Len(docs) <= 1 THEN docs
    ELSE LET texts == [i \in DOMAIN docs |-> docs[i].text]
             embeddings == gemini_embedding(texts, providerOk)
         IN  DedupFrom(docs, embeddings, <<docs[1]>>, 2, similarity_threshold)

(***************************************************************************)
(* _get_reranker and _rerank_documents                                     *)
(***************************************************************************)
NoReranker == [kind |-> "None", obj |-> 0]
Unavailable == [kind |-> "False", obj |-> 0]

\* The cross-encoder (external): reranker.predict is a fixed function of the
\* (query, text) pair; raw scores in thousandths, unbounded range
CrossEncoderScore(query, text) ==
    CASE text.c = "N" -> 0 - 3000
      [] text.c = "M" -> 200
      [] text.c = "A" -> 1000
      [] OTHER -> 2500

\* _get_reranker() run without interruption.  load is what importing and
\* constructing the CrossEncoder does: "ok", "ImportError", or "OSError"
\* (any exception that is not an ImportError).  The result is the new value
\* of the global, the number of models built, and whether the call raised.
get_reranker(rr, nbuilt, load) ==
    IF rr.kind # "None" THEN [rr |-> rr, built |-> nbuilt, raised |-> FALSE]
    ELSE IF load = "ok"
         THEN [rr |-> [kind |-> "Model", obj |-> nbuilt + 1],
               built |-> nbuilt + 1, raised |-> FALSE]
    ELSE IF load = "ImportError"
         THEN [rr |-> Unavailable, built |-> nbuilt, raised |-> FALSE]
    ELSE [rr |-> rr, built |-> nbuilt, raised |-> TRUE]

\* max(0, min(1, (rerank_score + 1) / 2))
NormalizedRerank(rerank_score) == Max(0, Min(One, (rerank_score + One) \div 2))

\* 0.8 * original_score + 0.2 * normalized_rerank, in millionths
BlendedScore(original_score, rerank_score) ==
    (8 * original_score + 2 * NormalizedRerank(rerank_score) * One) \div 10

\* _rerank_documents after reranker = _get_reranker() has returned handle.
\* predictOk is whether reranker.predict returned.
rerank_documents(query, docs, top_k, handle, predictOk) ==
    IF handle.kind = "False" \/ handle.kind = "None" THEN docs
    ELSE IF ~predictOk THEN docs
    ELSE LET doc_scores == SortDescByKey(
                 [i \in DOMAIN docs |->
                     [key |-> CrossEncoderScore(query, docs[i].text),
                      val |-> [doc |-> docs[i],
                               score |-> CrossEncoderScore(query, docs[i].text)]]])
             kept == Take(doc_scores, top_k)
         IN  [i \in DOMAIN kept |->
                 [kept[i].doc EXCEPT
                     !.has_rerank = TRUE,
                     !.rerank_score = kept[i].score,
                     !.combined_score = BlendedScore(kept[i].doc.combined_score,
                                                     kept[i].score)]]

(***************************************************************************)
(* _include_adjacent_chunks                                                *)
(***************************************************************************)
IsChunkDoc(doc) ==
    /\ Get(doc.meta, "is_chunk", FALSE)
    /\ Get(doc.meta, "source_doc_id", <<>>) # <<>>
    /\ "chunk_index" \in DOMAIN doc.meta

\* the keys of chunked_docs, in insertion order
RECURSIVE SourceOrder(_, _)
SourceOrder(docs, seen) ==
    IF docs = <<>> THEN seen
    ELSE LET source_id == Head(docs).meta["source_doc_id"]
         IN  SourceOrder(Tail(docs),
                         IF \E i \in DOMAIN seen : seen[i] = source_id
                         THEN seen ELSE Append(seen, source_id))

\* sorted(chunks_dict.keys())
RECURSIVE SortedIndices(_)
SortedIndices(indices) ==
    IF indices = {} THEN <<>>
    ELSE LET least == CHOOSE i \in indices : \A j \in indices : i <= j
         IN  <<least>> \o SortedIndices(indices \ {least})

\* chunked_docs[source_id][chunk_idx]: the last document stored under the key
ChunkAt(chunked, source_id, chunk_idx) ==
    LET hits == SelectSeq(chunked, LAMBDA d : /\ d.meta["source_doc_id"] = source_id
                                              /\ d.meta["chunk_index"] = chunk_idx)
    IN  hits[Len(hits)]

\* The lookup with the length test left out of the insertion
AddNeighbourUnchecked(acc, st, chunk_id, max_context_length, getRaises) ==
    IF getRaises THEN acc
    ELSE LET found == CollectionGet(st, chunk_id)
         IN  IF found = <<>> THEN acc
             ELSE LET neighbour == [text |-> found[1].text, meta |-> found[1].meta,
                                    similarity |-> NeighbourScore,
                                    recency_score |-> One,
                                    combined_score |-> NeighbourScore * One,
                                    has_rerank |-> FALSE, rerank_score |-> 0,
                                    stitched |-> TRUE]
                  IN  IF ~In(neighbour, acc.docs)
                      THEN [docs |-> Append(acc.docs, neighbour),
                            total_length |-> acc.total_length + TextLen(neighbour.text)]
                      ELSE acc

\* One point lookup of a neighbour and its insertion; acc is
\* [docs |-> enhanced_docs, total_length |-> total_length]
AddNeighbour(acc, st, chunk_id, max_context_length, getRaises) ==
    IF getRaises THEN acc
    ELSE LET found == CollectionGet(st, chunk_id)
         IN  IF found = <<>> THEN acc
             ELSE LET neighbour == [text |-> found[1].text, meta |-> found[1].meta,
                                    similarity |-> NeighbourScore,
                                    recency_score |-> One,
                                    combined_score |-> NeighbourScore * One,
                                    has_rerank |-> FALSE, rerank_score |-> 0,
                                    stitched |-> TRUE]
                  IN  IF /\ acc.total_length + TextLen(neighbour.text) <= max_context_length
                         /\ ~In(neighbour, acc.docs)
                      THEN [docs |-> Append(acc.docs, neighbour),
                            total_length |-> acc.total_length + TextLen(neighbour.text)]
                      ELSE acc

\* The body of the loop over chunk_indices, for one retrieved chunk
StitchChunk(acc, st, source_id, chunk_idx, doc, max_context_length, getRaises) ==
    LET main == IF In(doc, acc.docs) THEN acc
                ELSE [docs |-> Append(acc.docs, doc),
                      total_length |-> acc.total_length + TextLen(doc.text)]
        prev == IF chunk_idx > 0
                THEN AddNeighbour(main, st, ChunkId(source_id, chunk_idx - 1),
                                  max_context_length, getRaises)
                ELSE main
    IN  AddNeighbour(prev, st, ChunkId(source_id, chunk_idx + 1),
                     max_context_length, getRaises)

\* The loop over chunk_indices of one source, with its break
RECURSIVE StitchSource(_, _, _, _, _, _, _)
StitchSource(acc, st, chunked, source_id, chunk_indices, max_context_length, getRaises) ==
    IF chunk_indices = <<>> THEN acc
    ELSE LET after == StitchChunk(acc, st, source_id, Head(chunk_indices),
                                  ChunkAt(chunked, source_id, Head(chunk_indices)),
                                  max_context_length, getRaises)
         IN  IF after.total_length >= max_context_length THEN after
             ELSE StitchSource(after, st, chunked, source_id, Tail(chunk_indices),
                               max_context_length, getRaises)

\* The loop over chunked_docs.items()
RECURSIVE StitchAll(_, _, _, _, _, _)
StitchAll(acc, st, chunked, sources, max_context_length, getRaises) ==
    IF sources = <<>> THEN acc
    ELSE LET source_id == Head(sources)
             indices == {chunked[i].meta["chunk_index"] :
                           i \in {j \in DOMAIN chunked :
                                    chunked[j].meta["source_doc_id"] = source_id}}
         IN  StitchAll(StitchSource(acc, st, chunked, source_id, SortedIndices(indices),
                                    max_context_length, getRaises),
                       st, chunked, Tail(sources), max_context_length, getRaises)

include_adjacent_chunks(docs, user_id, max_context_length, current_length, st, getRaises) ==
    IF docs = <<>> THEN docs
    ELSE LET chunked == SelectSeq(docs, IsChunkDoc)
             standalone_docs == SelectSeq(docs, LAMBDA d : ~IsChunkDoc(d))
             enhanced == StitchAll([docs |-> standalone_docs, total_length |-> current_length],
                                   st, chunked, SourceOrder(chunked, <<>>),
                                   max_context_length, getRaises)
         IN  SortByCombinedScore(enhanced.docs)

(***************************************************************************)
(* retrieve_user_context                                                   *)
(***************************************************************************)
\* The arguments the model calls retrieve_user_context with
MinSimilarities == {600, 650}
MaxContextLengths == {1500, 2500, 4000}
RecencyWeights == {200}
\* The floors are explored with these budgets: 0.65 with 1500 and 2500,
\* 0.6 with 4000
Limits == {<<650, 1500>>, <<650, 2500>>, <<600, 4000>>}
\* allowed_types: None (given = FALSE) or a list of types, possibly empty
AllowedTypes == { [given |-> FALSE, types |-> {}],
                  [given |-> TRUE, types |-> {}],
                  [given |-> TRUE, types |-> {"context"}] }

\* The list returned without the final cut
TopKUncut(docs, k) == docs

\* docs[:k]
TopK(docs, k) == Take(docs, k)

IdleCall ==
    [outcome |-> "none", user_id |-> "", k |-> 0, min_similarity |-> 0,
     max_context_length |-> 0, allowed_types |-> [given |-> FALSE, types |-> {}],
     deduplicate |-> FALSE, use_reranking |-> FALSE,
     provider_failed |-> FALSE, zero_query |-> FALSE, store_raised |-> "no",
     load_failed |-> "no", dedup_ran |-> FALSE, dedup_out |-> <<>>,
     rerank_ran |-> FALSE, rerank_in |-> <<>>, rerank_out |-> <<>>, result |-> <<>>,
     rows |-> <<>>, scan_docs |-> <<>>, scan_total |-> 0, dedup_in |-> <<>>,
     stitch_ran |-> FALSE, stitch_in |-> <<>>, stitch_out |-> <<>>]

\* One whole call.  What the collaborators do during the call is drawn as
\* the call reaches them: whether the embedding provider answers (embQ for
\* the query, embD inside _deduplicate_context), whether the store's query
\* and its point lookups raise (queryRaises, getRaises; Chroma rejects a
\* query for n_results <= 0, so with k = 0 the query raises), what loading the
\* cross-encoder does (load), whether predict returns (predictOk).
\* call records the arguments, what happened and the outcome: "returned"
\* with the list, or "fault" when an exception left retrieve_user_context.
retrieve_user_context(user_id, query, k, min_similarity, max_context_length, recency_weight, allowed_types, deduplicate, use_reranking) ==
    /\ call.outcome = "none"
    /\ \E embQ \in BOOLEAN,
          queryRaises \in IF k * OverFetch <= 0 THEN {TRUE} ELSE BOOLEAN :
        LET where == [user_id |-> user_id,
                      typed |-> allowed_types.given /\ allowed_types.types # {},
                      types |-> allowed_types.types]
            q_emb == gemini_embedding(<<query>>, embQ)[1]
            started == [IdleCall EXCEPT
                          !.user_id = user_id, !.k = k,
                          !.min_similarity = min_similarity,
                          !.max_context_length = max_context_length,
                          !.allowed_types = allowed_types,
                          !.deduplicate = deduplicate,
                          !.use_reranking = use_reranking,
                          !.provider_failed = ~embQ,
                          !.zero_query = (q_emb = ZeroVector)]
        IN
        IF queryRaises
        THEN /\ call' = [started EXCEPT !.outcome = "fault", !.store_raised = "query"]
             /\ UNCHANGED <<store, now, reranker, built>>
        ELSE
        LET res == CollectionQuery(store, q_emb, k * OverFetch, where)
            scan == Scan(res, <<>>, 0, min_similarity, max_context_length,
                         recency_weight, now)
            sorted == SortByCombinedScore(scan.docs)
            dedupRuns == deduplicate /\ Len(sorted) > 1
        IN
        \E embD \in IF dedupRuns THEN BOOLEAN ELSE {TRUE} :
        LET deduped == IF dedupRuns
                       THEN deduplicate_context(sorted, DedupThreshold, embD)
                       ELSE sorted
            \* _rerank_documents reaches _get_reranker() only with more than one document
            loads == use_reranking /\ Len(deduped) > 1
            afterDedup == [started EXCEPT
                             !.provider_failed = ~embQ \/ ~embD,
                             !.rows = res,
                             !.scan_docs = scan.docs,
                             !.scan_total = scan.total_length,
                             !.dedup_in = IF dedupRuns THEN sorted ELSE <<>>,
                             !.dedup_ran = dedupRuns,
                             !.dedup_out = IF dedupRuns THEN deduped ELSE <<>>,
                             !.rerank_ran = use_reranking,
                             !.rerank_in = IF use_reranking THEN deduped ELSE <<>>]
        IN
        \E load \in IF loads /\ reranker.kind = "None"
                    THEN {"ok", "ImportError", "OSError"} ELSE {"ok"} :
        LET got == IF loads THEN get_reranker(reranker, built, load)
                   ELSE [rr |-> reranker, built |-> built, raised |-> FALSE]
            afterLoad == [afterDedup EXCEPT
                            !.load_failed = IF load = "ok" THEN "no" ELSE load]
        IN
        IF got.raised
        THEN /\ call' = [afterLoad EXCEPT !.outcome = "fault"]
             /\ UNCHANGED <<store, now, reranker, built>>
        ELSE
        LET predicts == loads /\ got.rr.kind = "Model"
        IN
        \E predictOk \in IF predicts THEN BOOLEAN ELSE {TRUE} :
        LET reranked == IF loads
                        THEN rerank_documents(query, deduped, k * RerankFactor, got.rr, predictOk)
                        ELSE deduped
            looksUp == \E i \in DOMAIN reranked : IsChunkDoc(reranked[i])
        IN
        \E getRaises \in IF looksUp THEN BOOLEAN ELSE {FALSE} :
        LET stitched == include_adjacent_chunks(reranked, user_id, max_context_length,
                                              scan.total_length, store, getRaises)
        IN  /\ call' = [afterLoad EXCEPT
                          !.outcome = "returned",
                          !.store_raised = IF getRaises THEN "get" ELSE "no",
                          !.rerank_out = IF use_reranking THEN reranked ELSE <<>>,
                          !.stitch_ran = TRUE,
                          !.stitch_in = reranked,
                          !.stitch_out = stitched,
                          !.result = TopK(stitched, k)]
            /\ reranker' = got.rr
            /\ built' = got.built
            /\ UNCHANGED <<store, now>>
    /\ UNCHANGED <<tpc, tnew, tgot, pstage, px, py, pz, pm, aux>>

\* The caller takes the outcome; the next call can start
Return ==
    /\ call.outcome # "none"
    /\ call' = IdleCall
    /\ UNCHANGED <<store, now, reranker, tpc, tnew, tgot, built, pstage, px, py, pz, pm, aux>>

(***************************************************************************)
(* _get_reranker called from several threads (the routes are synchronous   *)
(* FastAPI handlers, which run in a thread pool).  The function takes no   *)
(* lock; a thread can be preempted between reading the global, building    *)
(* the model (seconds of I/O), assigning the global and returning it.      *)
(***************************************************************************)
Threads == 1..NThreads

\* line 13: if _reranker is None
TestNone(t) ==
    /\ tpc[t] = "call"
    /\ tpc' = [tpc EXCEPT ![t] = IF reranker.kind = "None" THEN "load" ELSE "return"]
    /\ UNCHANGED <<store, now, reranker, call, tnew, tgot, built, pstage, px, py, pz, pm, aux>>

\* lines 15-16, right-hand side: the import and CrossEncoder(...)
Construct(t, load) ==
    /\ tpc[t] = "load"
    /\ \/ /\ load = "ok"
          /\ built' = built + 1
          /\ tnew' = [tnew EXCEPT ![t] = [kind |-> "Model", obj |-> built + 1]]
          /\ tpc' = [tpc EXCEPT ![t] = "assign"]
       \/ /\ load = "ImportError"
          /\ tnew' = [tnew EXCEPT ![t] = Unavailable]
          /\ tpc' = [tpc EXCEPT ![t] = "assign"]
          /\ UNCHANGED built
       \/ /\ load = "OSError"
          /\ tpc' = [tpc EXCEPT ![t] = "raised"]
          /\ UNCHANGED <<built, tnew>>
    /\ UNCHANGED <<store, now, reranker, call, tgot, pstage, px, py, pz, pm, aux>>

\* line 16 or line 21: the assignment to the global
Assign(t) ==
    /\ tpc[t] = "assign"
    /\ reranker' = tnew[t]
    /\ tpc' = [tpc EXCEPT ![t] = "return"]
    /\ UNCHANGED <<store, now, call, tnew, tgot, built, pstage, px, py, pz, pm, aux>>

\* line 22: return _reranker
ReturnHandle(t) ==
    /\ tpc[t] = "return"
    /\ tgot' = [tgot EXCEPT ![t] = reranker]
    /\ tpc' = [tpc EXCEPT ![t] = "done"]
    /\ UNCHANGED <<store, now, reranker, call, tnew, built, pstage, px, py, pz, pm, aux>>

(***************************************************************************)
(* polish_context, on texts that are sequences of characters               *)
(***************************************************************************)
MinTextLen == 20            \* len(text) < 20
MinCombined == 500          \* combined_score < 0.5
HashPrefix == 100           \* text.lower()[:100]

Whitespace == {" ", "\t"}
IsAlnum(ch) == ch \in {"a", "b", "c", "A", "7"}
Lower(ch) == IF ch = "A" THEN "a" ELSE ch

Rep(ch, n) == [i \in 1..n |-> ch]

\* str.strip()
RECURSIVE LStrip(_)
LStrip(text) ==
    IF text # <<>> /\ Head(text) \in Whitespace THEN LStrip(Tail(text)) ELSE text

RECURSIVE RStrip(_)
RStrip(text) ==
    IF text # <<>> /\ text[Len(text)] \in Whitespace
    THEN RStrip(SubSeq(text, 1, Len(text) - 1)) ELSE text

Strip(text) == RStrip(LStrip(text))

\* ' '.join(text.split()): every run of whitespace becomes one space, none
\* is left at either end
RECURSIVE JoinSplit(_)
JoinSplit(text) ==
    LET t == LStrip(text)
    IN  IF t = <<>> THEN <<>>
        ELSE LET rest == JoinSplit(Tail(t))
             IN  IF Tail(t) # <<>> /\ Head(Tail(t)) \in Whitespace /\ rest # <<>>
                 THEN <<Head(t), " ">> \o rest
                 ELSE <<Head(t)>> \o rest

\* len([c for c in text if c.isalnum()])
AlnumCount(text) == Cardinality({i \in DOMAIN text : IsAlnum(text[i])})

\* text.lower()[:100]; hash() is taken to be injective on these prefixes
PrefixKey(text) ==
    LET low == [i \in DOMAIN text |-> Lower(text[i])]
    IN  SubSeq(low, 1, Min(HashPrefix, Len(low)))

\* The loop of polish_context: acc is [polished, seen_texts]
RECURSIVE PolishFrom(_, _, _)
PolishFrom(context_docs, acc, min_similarity) ==
    IF context_docs = <<>> THEN acc.polished
    ELSE
      LET doc == Head(context_docs)
          stripped == Strip(Get(doc, "text", <<>>))
          similarity == Get(doc, "similarity", 0)
          combined_score == Get(doc, "combined_score", similarity * One)
          text == JoinSplit(stripped)
          skip == \/ stripped = <<>>
                  \/ Len(stripped) < MinTextLen
                  \/ similarity < min_similarity
                  \/ combined_score < MinCombined * One
                  \/ 10 * AlnumCount(text) < 3 * Len(text)
                  \/ PrefixKey(text) \in acc.seen_texts
      IN  PolishFrom(Tail(context_docs),
                     IF skip THEN acc
                     ELSE [polished |-> Append(acc.polished, [doc EXCEPT !.text = text]),
                           seen_texts |-> acc.seen_texts \cup {PrefixKey(text)}],
                     min_similarity)

\* polished.sort(key=lambda x: x.get('combined_score', 0), reverse=True)
PolishSort(polished) ==
    SortDescByKey([i \in DOMAIN polished |->
                      [key |-> Get(polished[i], "combined_score", 0), val |-> polished[i]]])

polish_context(context_docs, min_similarity) ==
    IF context_docs = <<>> THEN <<>>
    ELSE PolishSort(PolishFrom(context_docs, [polished |-> <<>>, seen_texts |-> {}],
                               min_similarity))

\* The texts and fragments polish_context is given
PolishTexts ==
    { <<"a">> \o Rep(" ", 22) \o <<"b">>,
      Rep("a", 20) \o <<" ", " ", "b", "c">>,
      <<"A">> \o Rep("a", 19) \o <<" ", "b", "c">>,
      <<" ">> \o Rep("b", 21) \o <<"\t">>,
      <<"s", "h", "o", "r", "t">>,
      Rep("#", 18) \o <<"a", "b", "c", "7">> }

PolishScores ==
    { [similarity |-> 900, combined_score |-> 900 * One],
      [similarity |-> 700, combined_score |-> 600 * One],
      [similarity |-> 600, combined_score |-> 900 * One],
      [similarity |-> 900, combined_score |-> 400 * One] }

PolishFragments ==
    { [text |-> t, similarity |-> sc.similarity, combined_score |-> sc.combined_score] :
        t \in PolishTexts, sc \in PolishScores }

PolishInputs ==
    UNION { [1..n -> PolishFragments] : n \in 0..MaxPolishLen }

PolishOnce ==
    /\ pstage = "in"
    /\ py' = polish_context(px, pm)
    /\ pstage' = "once"
    /\ UNCHANGED <<store, now, reranker, call, tpc, tnew, tgot, built, px, pz, pm, aux>>

PolishTwice ==
    /\ pstage = "once"
    /\ pz' = polish_context(py, pm)
    /\ pstage' = "twice"
    /\ UNCHANGED <<store, now, reranker, call, tpc, tnew, tgot, built, px, py, pm, aux>>

(***************************************************************************)
(* summarize_long_context.  The strings of this function, of the Context   *)
(* Formatter and of the query planner are strings of characters: len(),    *)
(* concatenation and slices are Len, \o and SubSeq.                         *)
(***************************************************************************)
\* s[:n] for n >= 0
Prefix(s, n) == SubSeq(s, 1, Min(n, Len(s)))

\* s[-n:] for n >= 0: the last n characters, but the whole string for n = 0,
\* because -0 is 0 and s[0:] is s
Suffix(s, n) == IF n = 0 THEN s ELSE SubSeq(s, Max(1, Len(s) - n + 1), Len(s))

\* the text the f-string puts between the two halves
Marker == "...\n[Context truncated for efficiency]\n..."

summarize_long_context(context_text, max_length) ==
    IF Len(context_text) <= max_length THEN context_text
    ELSE LET half == max_length \div 2
         IN  Prefix(context_text, half) \o Marker \o Suffix(context_text, half)

SummarizeTexts ==
    {"", "a", "ab", "abc", "abcd", "abcde", "abcdefg", "abcdefghij"}

SummarizeInputs ==
    [context_text : SummarizeTexts, max_length : 0..MaxSummarizeLen]

Summarize ==
    /\ fn = "none"
    /\ fn' = "summarize_long_context"
    /\ ret' = summarize_long_context(arg.context_text, arg.max_length)
    /\ UNCHANGED <<store, now, reranker, call, tpc, tnew, tgot, built, pstage, px, py, pz, pm, syl, arg>>

(***************************************************************************)
(* format_context_for_prompt.  A dict is a function from its keys; None    *)
(* and the empty dict are both the function with no keys (both are falsy). *)
(* Floats are in thousandths.                                              *)
(***************************************************************************)
SectionOverhead == 50       \* + 50 for formatting
PlaceholderReserve == 100   \* max_length - total_length - 100
PlaceholderRoom == 200      \* if remaining > 200
HighRelevance == 800        \* similarity > 0.8
MediumRelevance == 650      \* similarity > 0.65
DefaultCompletion == 700    \* completion_history.get("averageDailyCompletion", 0.7)

IsSpace(ch) == ch \in {" ", "\t", "\n"}

\* str.strip() on a string of characters
RECURSIVE StrStrip(_)
StrStrip(s) ==
    IF Len(s) = 0 THEN s
    ELSE IF IsSpace(SubSeq(s, 1, 1)) THEN StrStrip(SubSeq(s, 2, Len(s)))
    ELSE IF IsSpace(SubSeq(s, Len(s), Len(s))) THEN StrStrip(SubSeq(s, 1, Len(s) - 1))
    ELSE s

\* sep.join(parts)
RECURSIVE Join(_, _)
Join(parts, sep) ==
    IF parts = <<>> THEN ""
    ELSE IF Len(parts) = 1 THEN parts[1]
    ELSE parts[1] \o sep \o Join(Tail(parts), sep)

\* f"{x:.1%}" of a float given in thousandths
FormatPercent(x) == ToString(x \div 10) \o "." \o ToString(x % 10) \o "%"

\* Section 1: the profile section, or "" when there is nothing to show
ProfileSection(user_profile) ==
    IF Get(user_profile, "educationLevel", "") = "" THEN ""
    ELSE "User Profile:\n"
         \o "Education Level: " \o user_profile["educationLevel"]
         \o (IF Get(user_profile, "institution", "") # ""
             THEN " at " \o user_profile["institution"] ELSE "")
         \o (IF Get(user_profile, "major", "") # ""
             THEN ", Major: " \o user_profile["major"] ELSE "")
         \o (IF Get(user_profile, "year", "") # ""
             THEN ", Year: " \o user_profile["year"] ELSE "")

\* Section 2: the history section, or "" for None or an empty dict
HistorySection(completion_history) ==
    IF DOMAIN completion_history = {} THEN ""
    ELSE LET rate == <<"- Average daily completion rate: "
                       \o FormatPercent(Get(completion_history, "averageDailyCompletion",
                                            DefaultCompletion))>>
             capacity == IF "typicalCapacity" \in DOMAIN completion_history
                         THEN <<"- Typical daily capacity: "
                                \o ToString(completion_history["typicalCapacity"])
                                \o " tasks">>
                         ELSE <<>>
             times == IF Get(completion_history, "preferredStudyTimes", <<>>) # <<>>
                      THEN <<"- Preferred study times: "
                             \o Join(completion_history["preferredStudyTimes"], ", ")>>
                      ELSE <<>>
         IN  "Task Completion History:\n" \o Join(rate \o capacity \o times, "\n")

Relevance(similarity) ==
    IF similarity > HighRelevance THEN "High"
    ELSE IF similarity > MediumRelevance THEN "Medium" ELSE "Low"

\* Section 3: the loop over context_docs; rest is what is left of
\* context_docs, n is len(context_docs); the result is context_parts
RECURSIVE ContextParts(_, _, _, _, _)
ContextParts(rest, n, context_parts, total_length, max_length) ==
    IF rest = <<>> THEN context_parts
    ELSE LET doc == Head(rest)
             text == StrStrip(Get(doc, "text", ""))
         IN  IF text = ""
             THEN ContextParts(Tail(rest), n, context_parts, total_length, max_length)
             ELSE IF total_length + Len(text) + SectionOverhead > max_length
             THEN IF max_length - total_length - PlaceholderReserve > PlaceholderRoom
                  THEN Append(context_parts,
                              "[Additional context: " \o ToString(n - Len(context_parts))
                              \o " more relevant documents]")
                  ELSE context_parts
             ELSE ContextParts(Tail(rest), n,
                               Append(context_parts,
                                      "[" \o Relevance(Get(doc, "similarity", 0))
                                      \o " relevance] " \o text),
                               total_length + Len(text) + SectionOverhead, max_length)

\* if len(formatted_context) > max_length: summarize_long_context(...)
FinalCheck(formatted_context, max_length) ==
    IF Len(formatted_context) > max_length
    THEN summarize_long_context(formatted_context, max_length)
    ELSE formatted_context

format_context_for_prompt(context_docs, user_profile, completion_history, max_length) ==
    LET profile_section == ProfileSection(user_profile)
        has_profile == profile_section # "" /\ Len(profile_section) <= max_length
        after_profile == IF has_profile THEN Len(profile_section) ELSE 0
        history_section == HistorySection(completion_history)
        has_history == /\ history_section # ""
                       /\ after_profile + Len(history_section) <= max_length
        after_history == IF has_history THEN after_profile + Len(history_section)
                         ELSE after_profile
        context_parts == ContextParts(context_docs, Len(context_docs), <<>>,
                                      after_history, max_length)
        sections == (IF has_profile THEN <<profile_section>> ELSE <<>>)
                    \o (IF has_history THEN <<history_section>> ELSE <<>>)
                    \o (IF context_parts # <<>>
                        THEN <<"Study Patterns and Context:\n" \o Join(context_parts, "\n\n")>>
                        ELSE <<>>)
    IN  FinalCheck(Join(sections, "\n\n"), max_length)

\* The arguments the model calls format_context_for_prompt with
FormatProfiles ==
    { <<>>,
      [educationLevel |-> "BSc"],
      [educationLevel |-> "BSc", institution |-> "MIT", major |-> "CS", year |-> "2"],
      [institution |-> "MIT"] }

FormatHistories ==
    { <<>>,
      [averageDailyCompletion |-> 855],
      [typicalCapacity |-> 5, preferredStudyTimes |-> <<"morning", "evening">>] }

FormatTexts ==
    { "",
      "  Reads two chapters of linear algebra every evening.  ",
      "Prefers short sessions; 25 min focus, 5 min break, x4" }

FormatFragments ==
    [text : FormatTexts, similarity : {900, 700, 500}]

FormatDocs == UNION { [1..n -> FormatFragments] : n \in 0..MaxFormatDocs }

FormatMaxLengths == {0, 100, 200, 2500}

FormatInputs ==
    [context_docs : FormatDocs, user_profile : FormatProfiles,
     completion_history : FormatHistories, max_length : FormatMaxLengths]

Format ==
    /\ fn = "none"
    /\ fn' = "format_context_for_prompt"
    /\ ret' = format_context_for_prompt(arg.context_docs, arg.user_profile,
                                        arg.completion_history, arg.max_length)
    /\ UNCHANGED <<store, now, reranker, call, tpc, tnew, tgot, built, pstage, px, py, pz, pm, syl, arg>>

(***************************************************************************)
(* The query planner: determine_optimal_k and determine_context_types      *)
(***************************************************************************)
UpperLetters == "ABCDEFGHIJKLMNOPQRSTUVWXYZ"
LowerLetters == "abcdefghijklmnopqrstuvwxyz"

\* str.lower() of one character
LowerChar(ch) ==
    IF \E i \in 1..Len(UpperLetters) : SubSeq(UpperLetters, i, i) = ch
    THEN LET i == CHOOSE i \in 1..Len(UpperLetters) : SubSeq(UpperLetters, i, i) = ch
         IN  SubSeq(LowerLetters, i, i)
    ELSE ch

\* str.lower()
RECURSIVE StrLower(_)
StrLower(s) ==
    IF Len(s) = 0 THEN s
    ELSE LowerChar(SubSeq(s, 1, 1)) \o StrLower(SubSeq(s, 2, Len(s)))

\* kw in s: kw occurs in s as a substring
Contains(s, kw) ==
    \E i \in 1..(Len(s) - Len(kw) + 1) : SubSeq(s, i, i + Len(kw) - 1) = kw

\* any(kw in s for kw in keywords)
ContainsAny(s, keywords) == \E i \in DOMAIN keywords : Contains(s, keywords[i])

simple_keywords == <<"hi", "hello", "thanks", "thank you", "ok", "okay", "yes", "no", "bye">>
complex_keywords == <<"explain", "how", "why", "what is", "compare", "analyze", "describe", "tell me about">>

\* The two tests in the other order: complex keywords first
determine_optimal_k_complex_first(user_message) ==
    LET message_lower == StrLower(user_message)
    IN  IF ContainsAny(message_lower, complex_keywords) THEN 7
        ELSE IF ContainsAny(message_lower, simple_keywords) THEN 2
        ELSE 5

determine_optimal_k(user_message) ==
    LET message_lower == StrLower(user_message)
    IN  IF ContainsAny(message_lower, simple_keywords) THEN 2
        ELSE IF ContainsAny(message_lower, complex_keywords) THEN 7
        ELSE 5

skill_keywords == <<"skill", "learn", "study", "course", "subject">>
planning_keywords == <<"plan", "schedule", "task", "todo", "routine", "daily">>
personal_keywords == <<"name", "call me", "preference", "like", "dislike">>

\* The first two tests in the other order: planning keywords first
determine_context_types_planning_first(user_message) ==
    LET message_lower == StrLower(user_message)
    IN  IF ContainsAny(message_lower, planning_keywords)
        THEN <<"plan", "context", "onboarding">>
        ELSE IF ContainsAny(message_lower, skill_keywords)
        THEN <<"context", "onboarding", "chat">>
        ELSE IF ContainsAny(message_lower, personal_keywords)
        THEN <<"context", "onboarding">>
        ELSE <<"context", "onboarding">>

determine_context_types(user_message) ==
    LET message_lower == StrLower(user_message)
    IN  IF ContainsAny(message_lower, skill_keywords)
        THEN <<"context", "onboarding", "chat">>
        ELSE IF ContainsAny(message_lower, planning_keywords)
        THEN <<"plan", "context", "onboarding">>
        ELSE IF ContainsAny(message_lower, personal_keywords)
        THEN <<"context", "onboarding">>
        ELSE <<"context", "onboarding">>

\* The messages the planner is given: an opener, a request and its object,
\* and the examples of the documentation
PlanOpeners == {"", "Hi, ", "Thanks! ", "Please "}
PlanRequests ==
    {"explain", "what is", "Why does", "How to", "compare", "tell me about",
     "remind me about", "summarise", "Describe", "analyze", "show", "I want to learn"}
PlanObjects ==
    {" interest", " my study plan", " the daily schedule", " a monad",
     " guitar", " my name", " THE TODO list"}

PlanMessages ==
    {o \o r \o t : o \in PlanOpeners, r \in PlanRequests, t \in PlanObjects}
    \cup {"hi", "why does interest compound", "remind me to submit the form",
          "I want to learn guitar", ""}

PlanK ==
    /\ fn = "none"
    /\ fn' = "determine_optimal_k"
    /\ ret' = determine_optimal_k(arg)
    /\ UNCHANGED <<store, now, reranker, call, tpc, tnew, tgot, built, pstage, px, py, pz, pm, syl, arg>>

PlanTypes ==
    /\ fn = "none"
    /\ fn' = "determine_context_types"
    /\ ret' = determine_context_types(arg)
    /\ UNCHANGED <<store, now, reranker, call, tpc, tnew, tgot, built, pstage, px, py, pz, pm, syl, arg>>

(***************************************************************************)
(* The recency score of the scan on its own: the metadata of a stored      *)
(* fragment with no timestamp, or with a timestamp that parses, from       *)
(* MaxDaysOld days before the clock to MaxDaysAhead days after it (the     *)
(* timestamp of an ingest request is the caller's, and an offset is        *)
(* stripped from it, not converted).                                       *)
(***************************************************************************)
RecencyInputs ==
    { [meta |-> [type |-> "context"], now |-> 60] }
    \cup { [meta |-> [type |-> "context", timestamp |-> day], now |-> 60] :
              day \in (60 - MaxDaysOld)..(60 + MaxDaysAhead) }

Recency ==
    /\ fn = "none"
    /\ fn' = "recency_score"
    /\ ret' = RecencyScore(arg.meta, arg.now)
    /\ UNCHANGED <<store, now, reranker, call, tpc, tnew, tgot, built, pstage, px, py, pz, pm, syl, arg>>

(***************************************************************************)
(* scheduler.py: fallback_scheduler.  Times are minutes after midnight of  *)
(* the plan date; a window is [start, end].  The tasks carry no due date,  *)
(* no status and no exam, so a task must be scheduled exactly when its     *)
(* priority is high.                                                       *)
(***************************************************************************)
DefaultMinutes == 30

\* lines 20-23: 9 AM - 12 PM and 1 PM - 5 PM
DefaultWindows ==
    << [start |-> 9 * 60, end |-> 12 * 60], [start |-> 13 * 60, end |-> 17 * 60] >>

\* lines 11-23: the windows given, or the default windows when none are
Windows(available_times) ==
    IF available_times = <<>> THEN DefaultWindows ELSE available_times

\* int(t.get("estimated_minutes") or t.get("estimatedMinutes") or 30)
Minutes(t) == IF t.estimated_minutes = 0 THEN DefaultMinutes ELSE t.estimated_minutes

\* lines 36-115: must-schedule tasks first, then the others by priority;
\* sorted() is stable
TasksSorted(tasks) ==
    SelectSeq(tasks, LAMBDA t : t.priority = "high")
    \o SelectSeq(tasks, LAMBDA t : t.priority = "medium")
    \o SelectSeq(tasks, LAMBDA t : t.priority = "low")

\* lines 131-141: the item appended for a task
ScheduleItem(t, start, end) ==
    [task_id |-> t.id, start |-> start, end |-> end, estimated_minutes |-> Minutes(t)]

\* lines 117-142: the loop over tasks_sorted; w_idx counts from 1
RECURSIVE ScheduleFrom(_, _, _, _, _)
ScheduleFrom(tasks_sorted, windows, w_idx, cur, schedule) ==
    IF tasks_sorted = <<>> THEN schedule
    ELSE LET t == Head(tasks_sorted)
             end == cur + Minutes(t)
         IN  IF end > windows[w_idx].end
             THEN IF w_idx + 1 > Len(windows) THEN schedule
                  ELSE LET start == windows[w_idx + 1].start
                       IN  ScheduleFrom(Tail(tasks_sorted), windows, w_idx + 1,
                                        start + Minutes(t),
                                        Append(schedule,
                                               ScheduleItem(t, start, start + Minutes(t))))
             ELSE ScheduleFrom(Tail(tasks_sorted), windows, w_idx, end,
                               Append(schedule, ScheduleItem(t, cur, end)))

fallback_scheduler(available_times, tasks) ==
    LET windows == Windows(available_times)
    IN  IF tasks = <<>> THEN <<>>
        ELSE ScheduleFrom(TasksSorted(tasks), windows, 1, windows[1].start, <<>>)

\* The requests: no windows (the defaults apply), the default windows given
\* explicitly, one window, and three short windows; tasks of 30 minutes by
\* default, of one hour, of two and a half hours and of five hours
WindowLists ==
    { <<>>,
      DefaultWindows,
      << [start |-> 9 * 60, end |-> 11 * 60] >>,
      << [start |-> 9 * 60, end |-> 10 * 60], [start |-> 10 * 60, end |-> 11 * 60],
         [start |-> 14 * 60, end |-> 17 * 60] >> }

TaskKinds == [priority : {"high", "medium"}, estimated_minutes : {0, 60, 150, 300}]

TaskLists ==
    UNION { { [i \in 1..n |-> [id |-> i, priority |-> kinds[i].priority,
                               estimated_minutes |-> kinds[i].estimated_minutes]] :
                kinds \in [1..n -> TaskKinds] } : n \in 0..MaxTasks }

SchedulerInputs == [available_times : WindowLists, tasks : TaskLists]

Schedule ==
    /\ fn = "none"
    /\ fn' = "fallback_scheduler"
    /\ ret' = fallback_scheduler(arg.available_times, arg.tasks)
    /\ UNCHANGED <<store, now, reranker, call, tpc, tnew, tgot, built, pstage, px, py, pz, pm, syl, arg>>

(***************************************************************************)
(* Specifications                                                          *)
(***************************************************************************)
\* The store, the clock and sequential retrieve_user_context calls
Init ==
    /\ store = <<>>
    /\ now = 60
    /\ reranker = NoReranker
    /\ call = IdleCall
    /\ tpc = [t \in Threads |-> "idle"]
    /\ tnew = [t \in Threads |-> NoReranker]
    /\ tgot = [t \in Threads |-> NoReranker]
    /\ built = 0
    /\ pstage = "idle"
    /\ px = <<>>
    /\ py = <<>>
    /\ pz = <<>>
    /\ pm = 0
    /\ syl = IdleRequests
    /\ fn = "none"
    /\ arg = <<>>
    /\ ret = <<>>

Next ==
    \/ \E user_id \in Users, d \in DocPool, providerOk \in {TRUE} :
            call.outcome = "none" /\ ingest(user_id, <<d>>, providerOk)
    \/ \E user_id \in Users, query \in QueryPool, k \in 0..MaxK,
          min_similarity \in MinSimilarities,
          max_context_length \in MaxContextLengths,
          recency_weight \in RecencyWeights, allowed_types \in AllowedTypes,
          deduplicate \in BOOLEAN, use_reranking \in BOOLEAN :
            <<min_similarity, max_context_length>> \in Limits /\
            retrieve_user_context(user_id, query, k, min_similarity, max_context_length,
                                  recency_weight, allowed_types, deduplicate, use_reranking)
    \/ Return

Spec == Init /\ [][Next]_vars

\* Several threads inside _get_reranker at once, before the handle is set
InitThreads ==
    /\ store = <<>>
    /\ now = 60
    /\ reranker = NoReranker
    /\ call = IdleCall
    /\ tpc = [t \in Threads |-> "call"]
    /\ tnew = [t \in Threads |-> NoReranker]
    /\ tgot = [t \in Threads |-> NoReranker]
    /\ built = 0
    /\ pstage = "idle"
    /\ px = <<>>
    /\ py = <<>>
    /\ pz = <<>>
    /\ pm = 0
    /\ syl = IdleRequests
    /\ fn = "none"
    /\ arg = <<>>
    /\ ret = <<>>

NextThreads ==
    \E t \in Threads :
        \/ TestNone(t)
        \/ \E load \in {"ok", "ImportError", "OSError"} : Construct(t, load)
        \/ Assign(t)
        \/ ReturnHandle(t)

SpecThreads == InitThreads /\ [][NextThreads]_vars

\* polish_context applied to a fragment list, and again to its own output
InitPolish ==
    /\ store = <<>>
    /\ now = 60
    /\ reranker = NoReranker
    /\ call = IdleCall
    /\ tpc = [t \in Threads |-> "idle"]
    /\ tnew = [t \in Threads |-> NoReranker]
    /\ tgot = [t \in Threads |-> NoReranker]
    /\ built = 0
    /\ pstage = "in"
    /\ px \in PolishInputs
    /\ py = <<>>
    /\ pz = <<>>
    /\ pm \in {650, 500}
    /\ syl = IdleRequests
    /\ fn = "none"
    /\ arg = <<>>
    /\ ret = <<>>

NextPolish == PolishOnce \/ PolishTwice

SpecPolish == InitPolish /\ [][NextPolish]_vars

\* POST /ingest/syllabus requests, up to NRequests of them in flight
InitSyllabus == Init

NextSyllabus ==
    \E r \in Requests :
        \/ \E user_id \in Users, docs \in SyllabusDocs, storeRaises \in BOOLEAN :
                DeleteOldChunks(r, user_id, docs, storeRaises)
        \/ IngestNew(r)
        \/ Respond(r)

SpecSyllabus == InitSyllabus /\ [][NextSyllabus]_vars

\* summarize_long_context applied to a text and a max_length
InitSummarize ==
    /\ store = <<>>
    /\ now = 60
    /\ reranker = NoReranker
    /\ call = IdleCall
    /\ tpc = [t \in Threads |-> "idle"]
    /\ tnew = [t \in Threads |-> NoReranker]
    /\ tgot = [t \in Threads |-> NoReranker]
    /\ built = 0
    /\ pstage = "idle"
    /\ px = <<>>
    /\ py = <<>>
    /\ pz = <<>>
    /\ pm = 0
    /\ syl = IdleRequests
    /\ fn = "none"
    /\ arg \in SummarizeInputs
    /\ ret = <<>>

NextSummarize == Summarize

SpecSummarize == InitSummarize /\ [][NextSummarize]_vars

\* format_context_for_prompt applied to fragments, profile, history and max_length
InitFormat ==
    /\ store = <<>>
    /\ now = 60
    /\ reranker = NoReranker
    /\ call = IdleCall
    /\ tpc = [t \in Threads |-> "idle"]
    /\ tnew = [t \in Threads |-> NoReranker]
    /\ tgot = [t \in Threads |-> NoReranker]
    /\ built = 0
    /\ pstage = "idle"
    /\ px = <<>>
    /\ py = <<>>
    /\ pz = <<>>
    /\ pm = 0
    /\ syl = IdleRequests
    /\ fn = "none"
    /\ arg \in FormatInputs
    /\ ret = <<>>

NextFormat == Format

SpecFormat == InitFormat /\ [][NextFormat]_vars

\* The query planner applied to a message
InitPlan ==
    /\ store = <<>>
    /\ now = 60
    /\ reranker = NoReranker
    /\ call = IdleCall
    /\ tpc = [t \in Threads |-> "idle"]
    /\ tnew = [t \in Threads |-> NoReranker]
    /\ tgot = [t \in Threads |-> NoReranker]
    /\ built = 0
    /\ pstage = "idle"
    /\ px = <<>>
    /\ py = <<>>
    /\ pz = <<>>
    /\ pm = 0
    /\ syl = IdleRequests
    /\ fn = "none"
    /\ arg \in PlanMessages
    /\ ret = <<>>

NextPlan == PlanK \/ PlanTypes

SpecPlan == InitPlan /\ [][NextPlan]_vars

\* the recency score applied to a fragment's metadata
InitRecency ==
    /\ store = <<>>
    /\ now = 60
    /\ reranker = NoReranker
    /\ call = IdleCall
    /\ tpc = [t \in Threads |-> "idle"]
    /\ tnew = [t \in Threads |-> NoReranker]
    /\ tgot = [t \in Threads |-> NoReranker]
    /\ built = 0
    /\ pstage = "idle"
    /\ px = <<>>
    /\ py = <<>>
    /\ pz = <<>>
    /\ pm = 0
    /\ syl = IdleRequests
    /\ fn = "none"
    /\ arg \in RecencyInputs
    /\ ret = <<>>

NextRecency == Recency

SpecRecency == InitRecency /\ [][NextRecency]_vars

\* fallback_scheduler applied to windows and tasks
InitScheduler ==
    /\ store = <<>>
    /\ now = 60
    /\ reranker = NoReranker
    /\ call = IdleCall
    /\ tpc = [t \in Threads |-> "idle"]
    /\ tnew = [t \in Threads |-> NoReranker]
    /\ tgot = [t \in Threads |-> NoReranker]
    /\ built = 0
    /\ pstage = "idle"
    /\ px = <<>>
    /\ py = <<>>
    /\ pz = <<>>
    /\ pm = 0
    /\ syl = IdleRequests
    /\ fn = "none"
    /\ arg \in SchedulerInputs
    /\ ret = <<>>

NextScheduler == Schedule

SpecScheduler == InitScheduler /\ [][NextScheduler]_vars

(***************************************************************************)
(* Properties                                                              *)
(***************************************************************************)
Returned == call.outcome = "returned"

\* the fragments of a list that the Context Stitcher did not add
Retrieved(docs) == SelectSeq(docs, LAMBDA d : ~d.stitched)

\* the embedding provider's cosine similarity of two fragments' texts
TextCosine(a, b) == Cosine(ProviderEmbedding(a.text), ProviderEmbedding(b.text))

NoNearDuplicates(docs) ==
    \A i, j \in DOMAIN docs : i < j => TextCosine(docs[i], docs[j]) <= DedupThreshold

\* C1: a call with k >= 0 that returns, returns at most k fragments.
C1_AtMostK == Returned => Len(call.result) <= call.k

\* C1 witness: a call returned exactly k >= 1 fragments after deduplication
\* and the cross-encoder ran, and the re-ranked list was longer than k.
C1_Witness ==
    /\ Returned
    /\ call.k >= 1
    /\ Len(call.result) = call.k
    /\ call.dedup_ran
    /\ Len(call.rerank_out) > call.k
    /\ \E i \in DOMAIN call.rerank_out : call.rerank_out[i].has_rerank

\* C2: every returned fragment that the scan admitted (not a stitched
\* neighbour) has similarity >= min_similarity.
C2_AboveFloor ==
    Returned =>
        \A i \in DOMAIN call.result :
            ~call.result[i].stitched => call.result[i].similarity >= call.min_similarity

\* C2 witness: a returned list holds a scanned fragment beside a stitched one,
\* while the store holds a fragment of that user below the floor.
C2_Witness ==
    /\ Returned
    /\ \E i, j \in DOMAIN call.result :
          ~call.result[i].stitched /\ call.result[j].stitched
    /\ \E i \in DOMAIN store :
          /\ store[i].meta["user_id"] = call.user_id
          /\ One - Distance(ProviderEmbedding([c |-> "Q", from |-> 1, to |-> 12]),
                            store[i].embedding) < call.min_similarity

\* C3: the returned list is in non-increasing combined_score order.
C3_Sorted ==
    Returned =>
        \A i, j \in DOMAIN call.result :
            i < j => call.result[i].combined_score >= call.result[j].combined_score

\* C3 witness: a returned list of several fragments, one re-scored by the
\* cross-encoder and one added by the stitcher.
C3_Witness ==
    /\ Returned
    /\ Len(call.result) >= 2
    /\ \E i, j \in DOMAIN call.result :
          call.result[i].has_rerank /\ call.result[j].stitched

\* C4: no two fragments of _deduplicate_context's output have embedding
\* cosine similarity > 0.95, and so no two non-stitched fragments of a
\* deduplicate=True result are near-duplicates.
C4_NoNearDuplicates ==
    /\ call.dedup_ran => NoNearDuplicates(call.dedup_out)
    /\ (Returned /\ call.deduplicate) => NoNearDuplicates(Retrieved(call.result))

\* C5: if the embedding provider fails during a call, the call ends in a
\* fault and no store query is issued with a substitute vector.
C5_ProviderFailureFaults ==
    call.provider_failed => (call.outcome = "fault" /\ ~call.zero_query)

\* C6: if the vector store raises during a call, in the query or in a point
\* lookup of a neighbour chunk, the call ends in a fault.
C6_StoreFailureFaults ==
    call.store_raised # "no" => call.outcome = "fault"

\* C7: if the cross-encoder cannot be loaded, for whatever reason,
\* _rerank_documents returns its input unchanged and the call returns.
C7_LoadFailurePassThrough ==
    call.load_failed # "no" => (Returned /\ call.rerank_out = call.rerank_in)

\* C8: with several threads in _get_reranker before the handle is set, the
\* model is constructed at most once and every caller gets the same handle.
C8_ConstructedOnce ==
    /\ built <= 1
    /\ \A s, t \in Threads :
          (tpc[s] = "done" /\ tpc[t] = "done") => tgot[s] = tgot[t]

\* C9: every returned fragment, stitched neighbours included, has metadata
\* user_id equal to the user_id of the call.
C9_OnlyOwnFragments ==
    Returned =>
        \A i \in DOMAIN call.result : call.result[i].meta["user_id"] = call.user_id

\* C10: polish_context is idempotent: a second pass over its own output
\* yields the same fragments, same texts, same order.
C10_PolishIdempotent == pstage = "twice" => pz = py

\* C11: when a POST /ingest/syllabus for user U and course C has returned
\* success, every syllabus fragment of U and C in the store as the request
\* leaves it was inserted by that request.
C11_OnlyNewSyllabus ==
    \A r \in Requests :
        syl[r].pc = "ok" =>
            \A i \in DOMAIN syl[r].after :
                IsSyllabusOf(syl[r].after[i], syl[r].user_id, syl[r].course_id)
                    => \E j \in DOMAIN syl[r].inserted : syl[r].inserted[j] = syl[r].after[i]

\* the elements of docs at the positions in S, in order
RECURSIVE AtPositions(_, _, _)
AtPositions(docs, S, i) ==
    IF i > Len(docs) THEN <<>>
    ELSE (IF i \in S THEN <<docs[i]>> ELSE <<>>) \o AtPositions(docs, S, i + 1)

\* C12: _deduplicate_context on a list sorted by combined_score keeps the
\* first fragment and a sublist in the same order; every fragment it removes
\* has a kept fragment ranked above it with cosine similarity > 0.95; and of
\* two near-duplicate fragments the lower one does not survive beside the
\* higher one.
C12_DedupKeepsHigher ==
    call.dedup_ran =>
        \E S \in SUBSET DOMAIN call.dedup_in :
            /\ 1 \in S
            /\ call.dedup_out = AtPositions(call.dedup_in, S, 1)
            /\ \A j \in DOMAIN call.dedup_in \ S :
                  \E i \in S :
                      /\ i < j
                      /\ call.dedup_in[i].combined_score >= call.dedup_in[j].combined_score
                      /\ TextCosine(call.dedup_in[i], call.dedup_in[j]) > DedupThreshold
            /\ \A i, j \in S :
                  i < j => TextCosine(call.dedup_in[i], call.dedup_in[j]) <= DedupThreshold

\* a fragment that one of the drop rules of polish applies to: trimmed text
\* shorter than 20 characters, similarity below the floor, combined_score
\* below 0.5, or less than 0.3 of the trimmed text alphanumeric
ViolatesDropRule(doc, min_similarity) ==
    LET trimmed == Strip(doc.text)
    IN  \/ Len(trimmed) < MinTextLen
        \/ doc.similarity < min_similarity
        \/ doc.combined_score < MinCombined * One
        \/ 10 * AlnumCount(trimmed) < 3 * Len(trimmed)

\* C13: polish_context keeps no fragment that a drop rule applies to: no
\* fragment of the output is such an input fragment with its text cleaned.
C13_NoRuleBreakerKept ==
    pstage = "once" =>
        \A i \in DOMAIN px :
            ViolatesDropRule(px[i], pm) =>
                \A j \in DOMAIN py :
                    py[j] # [px[i] EXCEPT !.text = JoinSplit(Strip(px[i].text))]

\* C14: summarize_long_context returns the text itself when it is no longer
\* than max_length, and otherwise its first max_length // 2 characters, the
\* marker and its last max_length // 2 characters, 2 * (max_length // 2) +
\* len(marker) characters in all.
C14_HeadMarkerTail ==
    fn = "summarize_long_context" =>
        LET text == arg.context_text
            half == arg.max_length \div 2
        IN  IF Len(text) <= arg.max_length
            THEN ret = text
            ELSE /\ ret = SubSeq(text, 1, half) \o Marker
                           \o SubSeq(text, Len(text) - half + 1, Len(text))
                 /\ Len(ret) = 2 * half + Len(Marker)

\* C15: the string format_context_for_prompt returns has at most max_length
\* characters.
C15_WithinMaxLength ==
    fn = "format_context_for_prompt" => Len(ret) <= arg.max_length

\* the message of the planner call, in lower case
PlanMessage == StrLower(arg)

HasSmallTalk == ContainsAny(PlanMessage, simple_keywords)

\* the seven analytic tokens the documentation lists
HasListedAnalytic ==
    ContainsAny(PlanMessage, <<"explain", "how", "why", "compare", "analyze",
                               "describe", "tell me about">>)

\* C16, as stated: 2 with a small-talk token; otherwise 7 exactly when one of
\* the seven listed analytic tokens occurs; otherwise 5.
C16_SevenTokens ==
    fn = "determine_optimal_k" =>
        ret = (IF HasSmallTalk THEN 2 ELSE IF HasListedAnalytic THEN 7 ELSE 5)

\* C16, amended: 2 with a small-talk token; otherwise 7 exactly when one of
\* the seven listed tokens or "what is" occurs; otherwise 5.
C16_EightTokens ==
    fn = "determine_optimal_k" =>
        /\ ret \in {2, 5, 7}
        /\ ret = 2 <=> HasSmallTalk
        /\ ret = 7 <=> (~HasSmallTalk /\ (HasListedAnalytic \/ Contains(PlanMessage, "what is")))

\* C16 witness: a message with "what is", without a small-talk token and
\* without any of the seven listed tokens, got 7
C16_Witness ==
    /\ fn = "determine_optimal_k"
    /\ Contains(PlanMessage, "what is")
    /\ ~HasSmallTalk
    /\ ~HasListedAnalytic
    /\ ret = 7

\* the elements of a list
Elements(list) == {list[i] : i \in DOMAIN list}

\* C17: a message with a skill/learning keyword gets exactly {context,
\* onboarding, chat}; otherwise one with a planning keyword gets {plan,
\* context, onboarding}; every other message gets {context, onboarding}.
C17_TypePrecedence ==
    fn = "determine_context_types" =>
        Elements(ret) =
            (IF ContainsAny(PlanMessage, <<"skill", "learn", "study", "course", "subject">>)
             THEN {"context", "onboarding", "chat"}
             ELSE IF ContainsAny(PlanMessage, <<"plan", "schedule", "task", "todo",
                                                "routine", "daily">>)
             THEN {"plan", "context", "onboarding"}
             ELSE {"context", "onboarding"})

\* C17 witness: a message with a learning and a planning keyword got chat
\* and not plan
C17_Witness ==
    /\ fn = "determine_context_types"
    /\ Contains(PlanMessage, "study")
    /\ Contains(PlanMessage, "plan")
    /\ "chat" \in Elements(ret)
    /\ "plan" \notin Elements(ret)

\* the candidates of the last call at or above the floor, in store order
AboveFloor ==
    SelectSeq(call.rows, LAMBDA r : One - r.distance >= call.min_similarity)

\* total text length of the first n of them
RECURSIVE LengthOfFirst(_, _)
LengthOfFirst(rows, n) ==
    IF n = 0 THEN 0 ELSE LengthOfFirst(rows, n - 1) + TextLen(rows[n].text)

\* the length of the longest prefix of them that fits the budget
FittingPrefix ==
    CHOOSE n \in 0..Len(AboveFloor) :
        /\ LengthOfFirst(AboveFloor, n) <= call.max_context_length
        /\ \A m \in (n + 1)..Len(AboveFloor) :
              LengthOfFirst(AboveFloor, m) > call.max_context_length

\* C18: the scan admits exactly the longest prefix, in store order, of the
\* candidates at or above the floor whose total text length is within
\* max_context_length.
C18_AdmitsFittingPrefix ==
    call.outcome # "none" =>
        /\ Len(call.scan_docs) = FittingPrefix
        /\ \A i \in DOMAIN call.scan_docs :
              /\ call.scan_docs[i].text = AboveFloor[i].text
              /\ call.scan_docs[i].meta = AboveFloor[i].meta
              /\ call.scan_docs[i].similarity = One - AboveFloor[i].distance
        /\ call.scan_total = LengthOfFirst(AboveFloor, FittingPrefix)

\* C18 witness: the scan admitted a candidate, stopped at one that overflows
\* the budget, and a later candidate at or above the floor would have fitted.
C18_Witness ==
    /\ Returned
    /\ Len(call.scan_docs) >= 1
    /\ Len(call.scan_docs) + 1 < Len(AboveFloor)
    /\ \E i \in (Len(call.scan_docs) + 2)..Len(AboveFloor) :
          call.scan_total + TextLen(AboveFloor[i].text) <= call.max_context_length

\* C19: every fragment passed into _include_adjacent_chunks is in its output,
\* with the same text, metadata and scores.
C19_StitcherKeepsInput ==
    call.stitch_ran =>
        \A i \in DOMAIN call.stitch_in : In(call.stitch_in[i], call.stitch_out)

\* the stored chunks next to a chunk of the stitcher's input
NeighboursOf(doc) ==
    { f \in {store[i] : i \in DOMAIN store} :
        \E d \in {doc.meta["chunk_index"] - 1, doc.meta["chunk_index"] + 1} :
            d >= 0 /\ f.id = ChunkId(doc.meta["source_doc_id"], d) }

\* total text length of the fragments the stitcher added
RECURSIVE StitchedLength(_)
StitchedLength(docs) ==
    IF docs = <<>> THEN 0
    ELSE (IF Head(docs).stitched THEN TextLen(Head(docs).text) ELSE 0)
         + StitchedLength(Tail(docs))

\* C20: a stored neighbour of a retrieved chunk whose text is not in the
\* list is appended whenever the length passed in plus the lengths of the
\* neighbours inserted plus its own length is within max_context_length:
\* after the stitcher has run without a store failure, no neighbour that
\* would still fit on those terms is missing from the output.
C20_FittingNeighbourAdded ==
    (call.stitch_ran /\ call.store_raised = "no") =>
        \A i \in DOMAIN call.stitch_in :
            IsChunkDoc(call.stitch_in[i]) =>
                \A f \in NeighboursOf(call.stitch_in[i]) :
                    \/ \E j \in DOMAIN call.stitch_out : call.stitch_out[j].text = f.text
                    \/ call.scan_total + StitchedLength(call.stitch_out) + TextLen(f.text)
                           > call.max_context_length

\* two fragments that are the same chunk of the same source document
SameChunk(a, b) ==
    /\ IsChunkDoc(a) /\ IsChunkDoc(b)
    /\ a.meta["source_doc_id"] = b.meta["source_doc_id"]
    /\ a.meta["chunk_index"] = b.meta["chunk_index"]

\* C21: the list _include_adjacent_chunks returns never holds the same chunk
\* (same source_doc_id and chunk_index) twice: a neighbour that is already in
\* the list, retrieved or inserted, is not appended again.
C21_NoChunkTwice ==
    call.stitch_ran =>
        \A i, j \in DOMAIN call.stitch_out :
            i < j => ~SameChunk(call.stitch_out[i], call.stitch_out[j])

\* sum of len(doc['text']) over a list of fragments
RECURSIVE TotalTextLength(_)
TotalTextLength(docs) ==
    IF docs = <<>> THEN 0
    ELSE TextLen(Head(docs).text) + TotalTextLength(Tail(docs))

\* The store contents n ingest requests can leave
RECURSIVE StoresAfter(_)
StoresAfter(n) ==
    IF n = 0 THEN {<<>>}
    ELSE LET before == StoresAfter(n - 1)
             after == {Ingested(st, user_id, <<d>>, TRUE, now).store :
                          st \in before, user_id \in Users, d \in DocPool}
         IN  before \cup {st \in after : Len(st) <= MaxStore}

\* The list _include_adjacent_chunks returns in a call of
\* retrieve_user_context with deduplicate and use_reranking off, when no
\* collaborator fails
StitchedList(st, user_id, k, min_similarity, max_context_length, recency_weight, allowed_types) ==
    LET where == [user_id |-> user_id,
                  typed |-> allowed_types.given /\ allowed_types.types # {},
                  types |-> allowed_types.types]
        q_emb == gemini_embedding(<<CHOOSE q \in QueryPool : TRUE>>, TRUE)[1]
        res == CollectionQuery(st, q_emb, k * OverFetch, where)
        scan == Scan(res, <<>>, 0, min_similarity, max_context_length, recency_weight, now)
    IN  include_adjacent_chunks(SortByCombinedScore(scan.docs), user_id,
                                max_context_length, scan.total_length, st, FALSE)

\* C22 as claimed: stitching can push the true total above
\* max_context_length, that is, there is a store content and a call in which
\* the text lengths of the stitched list sum to more than max_context_length.
C22_SomeCallOverflows ==
    \E st \in StoresAfter(MaxStore), user_id \in Users, k \in 1..MaxK,
       limit \in Limits, recency_weight \in RecencyWeights,
       allowed_types \in AllowedTypes :
        TotalTextLength(StitchedList(st, user_id, k, limit[1], limit[2],
                                     recency_weight, allowed_types)) > limit[2]

\* C22 as the code has it: every neighbour insertion passes its length test
\* against a total that already counts every fragment of the list (the
\* retrieved chunks twice), so in every call the text lengths of the list
\* _include_adjacent_chunks returns sum to at most max_context_length.
C22_StitchedWithinBudget ==
    call.stitch_ran => TotalTextLength(call.stitch_out) <= call.max_context_length

\* a call in which the stitcher inserted a neighbour and the list it
\* returned is longer in total than the list the scan admitted
C22_Witness ==
    /\ call.stitch_ran
    /\ \E i \in DOMAIN call.stitch_out : call.stitch_out[i].stitched
    /\ TotalTextLength(call.stitch_out) > call.scan_total

\* a call in which _rerank_documents scored its input with the cross-encoder
Reranked ==
    /\ call.outcome = "returned"
    /\ call.rerank_ran
    /\ Len(call.rerank_in) > 1
    /\ \A i \in DOMAIN call.rerank_out : call.rerank_out[i].has_rerank

\* the blended score _rerank_documents gives a fragment of its input
BlendOf(doc) ==
    BlendedScore(doc.combined_score,
                 CrossEncoderScore(CHOOSE q \in QueryPool : TRUE, doc.text))

\* C23: with the re-ranker available and more than one fragment,
\* _rerank_documents returns the fragments in descending order of the blended
\* score 0.8 * combined_score + 0.2 * clip((raw + 1) / 2, 0, 1), and the
\* fragments kept are the top_k by that score: no fragment left out has a
\* higher blended score than a fragment kept.
C23_RerankedByBlendedScore ==
    Reranked =>
        /\ \A i, j \in DOMAIN call.rerank_out :
              i < j => call.rerank_out[i].combined_score >= call.rerank_out[j].combined_score
        /\ \A i \in DOMAIN call.rerank_in :
              (\A j \in DOMAIN call.rerank_out :
                    call.rerank_out[j].text # call.rerank_in[i].text)
              => \A j \in DOMAIN call.rerank_out :
                    BlendOf(call.rerank_in[i]) <= call.rerank_out[j].combined_score

\* a call of _get_reranker that has finished: it returned the handle, or the
\* exception of the load left it
Finished(t) == tpc[t] \in {"done", "raised"}

\* C24: the handle is terminal after the first use: once a call of
\* _get_reranker has finished, whether the model was loaded or loading
\* failed, no call that tests the handle afterwards goes on to load the model,
\* and the value of the handle does not change.
C24_TerminalAfterFirstUse ==
    [][(\E t \in Threads : Finished(t)) =>
          /\ reranker' = reranker
          /\ \A u \in Threads : tpc[u] = "call" => tpc'[u] # "load"]_vars

\* C25: the recency score of a fragment is within [0, 1]; it is 1.0 when
\* the metadata has no timestamp, and max(0.1, 1 / (1 + age_days / 30)) when
\* it has one, for every timestamp, those after the clock included.
C25_RecencyInUnitRange ==
    fn = "recency_score" =>
        /\ 0 <= ret /\ ret <= One
        /\ "timestamp" \notin DOMAIN arg.meta => ret = One
        /\ ("timestamp" \in DOMAIN arg.meta
               /\ HalfLifeDays + (arg.now - arg.meta["timestamp"]) > 0)
           => ret = Max(RecencyFloor,
                        (One * HalfLifeDays)
                            \div (HalfLifeDays + (arg.now - arg.meta["timestamp"])))

\* C26: whenever allowed_types is given (not None), every fragment the scan
\* admits has a type that is in allowed_types, for every list given, the
\* empty one included.
C26_OnlyAllowedTypes ==
    call.allowed_types.given =>
        \A i \in DOMAIN call.scan_docs :
            /\ "type" \in DOMAIN call.scan_docs[i].meta
            /\ call.scan_docs[i].meta["type"] \in call.allowed_types.types

\* total_length when the loop over context_docs starts: the lengths of the
\* profile and history sections that were admitted
LengthBeforeContext ==
    LET profile_section == ProfileSection(arg.user_profile)
        after_profile == IF profile_section # "" /\ Len(profile_section) <= arg.max_length
                         THEN Len(profile_section) ELSE 0
        history_section == HistorySection(arg.completion_history)
    IN  IF history_section # "" /\ after_profile + Len(history_section) <= arg.max_length
        THEN after_profile + Len(history_section) ELSE after_profile

\* The fragments rendered before the first one that overflows
\* (running_total + len(text) + 50 > max_length), and whether one overflows
RECURSIVE UntilOverflow(_, _, _, _)
UntilOverflow(rest, rendered, running_total, max_length) ==
    IF rest = <<>> THEN [overflows |-> FALSE, rendered |-> rendered]
    ELSE LET text == StrStrip(Get(Head(rest), "text", ""))
         IN  IF text = ""
             THEN UntilOverflow(Tail(rest), rendered, running_total, max_length)
             ELSE IF running_total + Len(text) + SectionOverhead > max_length
             THEN [overflows |-> TRUE, rendered |-> rendered]
             ELSE UntilOverflow(Tail(rest), rendered + 1,
                                running_total + Len(text) + SectionOverhead, max_length)

\* C27: in format_context_for_prompt the first fragment that would overflow
\* always puts a placeholder after the fragments rendered so far, stating how
\* many fragments were not rendered, and nothing is rendered after it.
C27_OverflowLeavesPlaceholder ==
    fn = "format_context_for_prompt" =>
        LET n == Len(arg.context_docs)
            parts == ContextParts(arg.context_docs, n, <<>>, LengthBeforeContext,
                                  arg.max_length)
            first == UntilOverflow(arg.context_docs, 0, LengthBeforeContext,
                                   arg.max_length)
        IN  first.overflows =>
                /\ Len(parts) = first.rendered + 1
                /\ parts[Len(parts)] = "[Additional context: "
                                           \o ToString(n - first.rendered)
                                           \o " more relevant documents]"

\* the stored fragments that are chunks of the source document source_id
StoredChunksOf(source_id) ==
    { i \in DOMAIN store :
        /\ Get(store[i].meta, "is_chunk", FALSE)
        /\ store[i].meta["source_doc_id"] = source_id }

\* C28: after any sequence of ingest calls, every stored fragment marked
\* is_chunk has the id "{source_doc_id}_chunk_{chunk_index}", and the stored
\* chunks of one source document carry the chunk_index values
\* 0 .. total_chunks - 1, each exactly once.
C28_ChunksNumbered ==
    \A i \in DOMAIN store :
        Get(store[i].meta, "is_chunk", FALSE) =>
            LET meta == store[i].meta
                same == StoredChunksOf(meta["source_doc_id"])
            IN  /\ store[i].id = ChunkId(meta["source_doc_id"], meta["chunk_index"])
                /\ \A j \in same :
                      /\ store[j].meta["chunk_index"] \in 0..(meta["total_chunks"] - 1)
                      /\ store[j].meta["total_chunks"] = meta["total_chunks"]
                /\ \A n \in 0..(meta["total_chunks"] - 1) :
                      Cardinality({j \in same : store[j].meta["chunk_index"] = n}) = 1

\* the chunks (id and text) the upload of request r consists of
UploadOf(r) ==
    LET frags == AllFragments(syl[r].user_id, syl[r].docs, now)
    IN  { [id |-> frags[i].id, text |-> frags[i].text] : i \in DOMAIN frags }

\* the syllabus chunks (id and text) the store holds for a user and course
StoredSyllabus(user_id, course_id) ==
    { [id |-> store[i].id, text |-> store[i].text] :
        i \in { j \in DOMAIN store : IsSyllabusOf(store[j], user_id, course_id) } }

\* C29: when two POST /ingest/syllabus requests for the same user and course
\* overlap and neither meets a store failure, then once both have completed
\* the store holds, for that user and course, the chunks of exactly one of
\* the two uploads, whatever the order of their delete and insert steps.
C29_OneUploadSurvives ==
    \A r, q \in Requests :
        (/\ r # q
         /\ syl[r].pc = "ok" /\ syl[q].pc = "ok"
         /\ syl[r].user_id = syl[q].user_id
         /\ syl[r].course_id = syl[q].course_id
         /\ ~syl[r].delete_failed /\ ~syl[q].delete_failed)
        => \/ StoredSyllabus(syl[r].user_id, syl[r].course_id) = UploadOf(r)
           \/ StoredSyllabus(syl[r].user_id, syl[r].course_id) = UploadOf(q)

\* C30: every item fallback_scheduler produces starts and ends inside one
\* availability window (the defaults 09:00-12:00 and 13:00-17:00 when none
\* is given), no two items overlap, and each task is scheduled at most once.
C30_ItemsInsideWindows ==
    fn = "fallback_scheduler" =>
        LET windows == Windows(arg.available_times)
        IN  /\ \A i \in DOMAIN ret :
                  \E w \in DOMAIN windows :
                      /\ windows[w].start <= ret[i].start
                      /\ ret[i].end <= windows[w].end
            /\ \A i, j \in DOMAIN ret :
                  i < j => (ret[i].end <= ret[j].start \/ ret[j].end <= ret[i].start)
            /\ \A i, j \in DOMAIN ret : i < j => ret[i].task_id # ret[j].task_id

=============================================================================
